---- MODULE Spec2Model ----
(***************************************************************************)
(* Model of the diff-in-place crate (src/src/lib.rs): the DiffInPlace      *)
(* trait for [T; N], with try_diff_in_place (the scan) and diff_in_place   *)
(* (the infallible wrapper around it).                                     *)
(*                                                                         *)
(* Arrays are functions over 0..N-1 so that indices are the source's.      *)
(* A slice and the list of visitor invocations are sequences.              *)
(***************************************************************************)
EXTENDS Integers, Sequences, FiniteSets, TLC

\* ---------------------------------------------------------------- bounds
MaxN == 4      \* array lengths 0..MaxN are explored
MaxVal == 1    \* element values are 0..MaxVal
MaxErr == 2    \* the visitor's failure values are 1..MaxErr
MaxCalls == 2  \* calls made one after the other on the same pair of arrays

Vals == 0..MaxVal
ErrVals == 1..MaxErr

VARIABLES
    a,          \* self:  [T; N]
    b,          \* other: [T; N]
    mode,       \* which entry point the caller used
    pc,         \* position of the call
    current,    \* the enumerate() index of the next pair to compare
    run_state,  \* DiffState
    calls,      \* the visitor invocations made so far, <<[idx, diff], ...>>
    vres,       \* what the visitor returned at each invocation
    ret,        \* the value try_diff_in_place returned
    panicked,   \* a panic was raised (slice out of range, unwrap of Err)
    compared,   \* the indices whose pair was compared so far, in order
    prev        \* the call made before this one: [n, calls, vres, ret], where
                \* n is the number of calls made before this one

vars == <<a, b, mode, pc, current, run_state, calls, vres, ret, panicked,
          compared, prev>>

\* ------------------------------------------------------------ data types
\* const N: usize of impl DiffInPlace<T, N> for [T; N]
N == Cardinality(DOMAIN a)

\* enum DiffState { Same, Different(usize) }
Same == [tag |-> "Same", start |-> 0]
Different(s) == [tag |-> "Different", start |-> s]

\* Result<(), R>; Pending is "try_diff_in_place has not returned yet"
Ok == [tag |-> "Ok", err |-> 0]
Err(e) == [tag |-> "Err", err |-> e]
Pending == [tag |-> "none", err |-> 0]

\* left == right (T: PartialEq)
EqBad(left, right) == left # right
Eq(left, right) == left = right

\* &other[lo..hi] as a sequence; defined when lo <= hi <= len
Slice(arr, lo, hi) == [k \in 1..(hi - lo) |-> arr[lo + k - 1]]

\* the range check of the slice index expression other[lo..hi]
SliceInRange(lo, hi, len) == lo <= hi /\ hi <= len

\* let mut run_state = DiffState::Same;
InitialRunStateBad == Different(0)
InitialRunState == Same

\* run_state = DiffState::Different(current);
NewRunStateBad(cur) == Different(cur + 1)
NewRunState(cur) == Different(cur)

\* the slice handed to func when a run ends: &other[run_start..current]
ReportedSliceBad(other, run_start, cur) == Slice(other, run_start, cur + 1)
ReportedSlice(other, run_start, cur) == Slice(other, run_start, cur)

\* the `?` after func(..): TRUE when the result makes the function return
QuestionBad(r) == FALSE
Question(r) == r.tag = "Err"

\* what the visitor passed to try_diff_in_place may return.
\* try_diff_in_place: the caller's closure, any Result<(), R>.
\* diff_in_place: the closure |idx, diff| { func(idx, diff); Ok(()) }.
WrappedVisitorResultsBad == {Ok} \cup {Err(e) : e \in ErrVals}
WrappedVisitorResults == {Ok}
VisitorResults(m) ==
    IF m = "diff_in_place" THEN WrappedVisitorResults
    ELSE {Ok} \cup {Err(e) : e \in ErrVals}

\* no call was made before this one
NoCall == [n |-> 0, calls |-> <<>>, vres |-> <<>>, ret |-> Pending]

\* where control goes when try_diff_in_place returns
ReturnPc(m) == IF m = "diff_in_place" THEN "unwrap" ELSE "done"

\* ------------------------------------------------------------------ Init
Init ==
    /\ \E n \in 0..MaxN :
          /\ a \in [0..(n - 1) -> Vals]
          /\ b \in [0..(n - 1) -> Vals]
    /\ mode = "none"
    /\ pc = "idle"
    /\ current = 0
    /\ run_state = Same
    /\ calls = <<>>
    /\ vres = <<>>
    /\ ret = Pending
    /\ panicked = FALSE
    /\ compared = <<>>
    /\ prev = NoCall

\* --------------------------------------------------------------- actions
\* entry of try_diff_in_place, called directly
TryDiffInPlace ==
    /\ pc = "idle"
    /\ mode' = "try_diff_in_place"
    /\ pc' = "loop"
    /\ current' = 0
    /\ run_state' = InitialRunState
    /\ UNCHANGED <<a, b, calls, vres, ret, panicked, compared, prev>>

\* entry of diff_in_place: calls try_diff_in_place with the wrapped visitor
DiffInPlace ==
    /\ pc = "idle"
    /\ mode' = "diff_in_place"
    /\ pc' = "loop"
    /\ current' = 0
    /\ run_state' = InitialRunState
    /\ UNCHANGED <<a, b, calls, vres, ret, panicked, compared, prev>>

\* (DiffState::Same, false) => run_state = DiffState::Different(current)
StartRun ==
    /\ pc = "loop"
    /\ current < N
    /\ run_state.tag = "Same"
    /\ ~Eq(a[current], b[current])
    /\ run_state' = NewRunState(current)
    /\ current' = current + 1
    /\ compared' = Append(compared, current)
    /\ UNCHANGED <<a, b, mode, pc, calls, vres, ret, panicked, prev>>

\* (DiffState::Different(run_start), true) =>
\*     func(run_start, &other[run_start..current])?; run_state = Same
\* EndRunVisit is the arm's effect on everything but the two arrays.
EndRunVisit ==
    /\ pc = "loop"
    /\ current < N
    /\ run_state.tag = "Different"
    /\ Eq(a[current], b[current])
    /\ compared' = Append(compared, current)
    /\ UNCHANGED prev
    /\ IF ~SliceInRange(run_state.start, current, N)
       THEN /\ panicked' = TRUE
            /\ pc' = "done"
            /\ UNCHANGED <<mode, current, run_state, calls, vres, ret>>
       ELSE \E r \in VisitorResults(mode) :
            /\ calls' = Append(calls,
                   [idx |-> run_state.start,
                    diff |-> ReportedSlice(b, run_state.start, current)])
            /\ vres' = Append(vres, r)
            /\ IF Question(r)
               THEN /\ ret' = r
                    /\ pc' = ReturnPc(mode)
                    /\ UNCHANGED <<current, run_state>>
               ELSE /\ run_state' = Same
                    /\ current' = current + 1
                    /\ UNCHANGED <<ret, pc>>
            /\ UNCHANGED <<mode, panicked>>

\* the arm as it would be if it also applied the reported run to self
EndRunBad ==
    /\ EndRunVisit
    /\ a' = [i \in DOMAIN a |->
                IF run_state.start <= i /\ i < current THEN b[i] ELSE a[i]]
    /\ b' = b

\* self and other are shared borrows (&self, other: &[T; N]): nothing is written
EndRun ==
    /\ EndRunVisit
    /\ UNCHANGED <<a, b>>

\* the `_` arm as it would be if the iterator did not advance
RunUnchangedBad ==
    /\ pc = "loop"
    /\ current < N
    /\ \/ run_state.tag = "Same" /\ Eq(a[current], b[current])
       \/ run_state.tag = "Different" /\ ~Eq(a[current], b[current])
    /\ Len(compared) <= N
    /\ compared' = Append(compared, current)
    /\ UNCHANGED <<a, b, mode, pc, current, run_state, calls, vres, ret,
                   panicked, prev>>

\* _ => {}   (Same, true) and (Different(_), false)
RunUnchanged ==
    /\ pc = "loop"
    /\ current < N
    /\ \/ run_state.tag = "Same" /\ Eq(a[current], b[current])
       \/ run_state.tag = "Different" /\ ~Eq(a[current], b[current])
    /\ current' = current + 1
    /\ compared' = Append(compared, current)
    /\ UNCHANGED <<a, b, mode, pc, run_state, calls, vres, ret, panicked, prev>>

\* the loop end as it would be if a run still open were reported there
LoopExitFlush ==
    /\ pc = "loop"
    /\ current = N
    /\ ret' = Ok
    /\ pc' = ReturnPc(mode)
    /\ IF run_state.tag = "Different"
       THEN /\ calls' = Append(calls,
                   [idx |-> run_state.start,
                    diff |-> Slice(b, run_state.start, N)])
            /\ vres' = Append(vres, Ok)
       ELSE UNCHANGED <<calls, vres>>
    /\ UNCHANGED <<a, b, mode, current, run_state, panicked, compared, prev>>

\* the iterator is exhausted: the for loop ends and the function returns Ok(())
LoopExit ==
    /\ pc = "loop"
    /\ current = N
    /\ ret' = Ok
    /\ pc' = ReturnPc(mode)
    /\ UNCHANGED <<a, b, mode, current, run_state, calls, vres, panicked,
                   compared, prev>>

\* .unwrap() of the inner call's result in diff_in_place
Unwrap ==
    /\ pc = "unwrap"
    /\ pc' = "done"
    /\ panicked' = (ret.tag = "Err")
    /\ UNCHANGED <<a, b, mode, current, run_state, calls, vres, ret,
                   compared, prev>>

\* the record kept of the call that is over when the next one starts
CallRecord == [n |-> prev.n + 1, calls |-> calls, vres |-> vres, ret |-> ret]

\* a further call as it would be if run_state outlived the call before
CallAgainBad ==
    /\ pc = "done"
    /\ ~panicked
    /\ prev.n + 1 < MaxCalls
    /\ \E m \in {"try_diff_in_place", "diff_in_place"} : mode' = m
    /\ prev' = CallRecord
    /\ pc' = "loop"
    /\ current' = 0
    /\ run_state' = run_state
    /\ calls' = <<>>
    /\ vres' = <<>>
    /\ ret' = Pending
    /\ compared' = <<>>
    /\ UNCHANGED <<a, b, panicked>>

\* the caller, who still owns both arrays, calls again on the same pair:
\* byte_for_byte and run_state are locals, made anew by every call
CallAgain ==
    /\ pc = "done"
    /\ ~panicked
    /\ prev.n + 1 < MaxCalls
    /\ \E m \in {"try_diff_in_place", "diff_in_place"} : mode' = m
    /\ prev' = CallRecord
    /\ pc' = "loop"
    /\ current' = 0
    /\ run_state' = InitialRunState
    /\ calls' = <<>>
    /\ vres' = <<>>
    /\ ret' = Pending
    /\ compared' = <<>>
    /\ UNCHANGED <<a, b, panicked>>

Next ==
    \/ TryDiffInPlace
    \/ DiffInPlace
    \/ StartRun
    \/ EndRun
    \/ RunUnchanged
    \/ LoopExit
    \/ Unwrap

Spec == Init /\ [][Next]_vars

\* several calls, one after the other, on the same pair of arrays
MultiNext ==
    \/ TryDiffInPlace
    \/ DiffInPlace
    \/ StartRun
    \/ EndRun
    \/ RunUnchanged
    \/ LoopExit
    \/ Unwrap
    \/ CallAgain

MultiSpec == Init /\ [][MultiNext]_vars

\* The code is synchronous and single-threaded: a call that can take a step
\* takes it.
FairSpec == Spec /\ WF_vars(Next)

\* ------------------------------------------------- vocabulary of the claims
\* a[i] != b[i]
Differs(i) == a[i] # b[i]

\* [s, e) is a maximal contiguous index range on which a and b differ
IsMaxRun(s, e) ==
    /\ 0 <= s /\ s < e /\ e <= N
    /\ \A i \in s..(e - 1) : Differs(i)
    /\ s = 0 \/ ~Differs(s - 1)
    /\ e = N \/ ~Differs(e)

MaxRuns == {r \in (0..N) \X (0..N) : IsMaxRun(r[1], r[2])}

\* the invocation that reports the range [s, e)
Report(s, e) == [idx |-> s, diff |-> Slice(b, s, e)]

\* the index just past the range reported by the k-th invocation
EndOf(k) == calls[k].idx + Len(calls[k].diff)

\* the outer call is over
CallCompleted == pc = "done"

\* every visitor invocation so far returned success
NeverFailed == \A k \in 1..Len(vres) : vres[k] = Ok

AllEqual == \A i \in 0..(N - 1) : ~Differs(i)
AllDiffer == \A i \in 0..(N - 1) : Differs(i)

\* write one reported slice over arr at its start index
WriteSlice(arr, idx, diff) ==
    [i \in DOMAIN arr |->
        IF idx <= i /\ i < idx + Len(diff) THEN diff[i - idx + 1] ELSE arr[i]]

\* write the reported slices over arr in the order reported
RECURSIVE Overlay(_, _)
Overlay(arr, cs) ==
    IF cs = <<>> THEN arr
    ELSE Overlay(WriteSlice(arr, Head(cs).idx, Head(cs).diff), Tail(cs))

\* ---------------------------------------------------------------- claims
\* C1: with a visitor that never fails, a completed call has invoked the
\* visitor exactly once for each maximal differing range [s, e), in ascending
\* order of s, with (s, b[s..e)); the number of invocations is the number of
\* maximal differing runs.
C1_OncePerMaximalRun ==
    (CallCompleted /\ NeverFailed) =>
        /\ Len(calls) = Cardinality(MaxRuns)
        /\ \A r \in MaxRuns :
              Cardinality({k \in 1..Len(calls) : calls[k] = Report(r[1], r[2])}) = 1
        /\ \A k \in 1..Len(calls) :
              \E r \in MaxRuns : calls[k] = Report(r[1], r[2])
        /\ \A j, k \in 1..Len(calls) : j < k => calls[j].idx < calls[k].idx

\* C2: when the scan of all N indices ends with a run that started at S still
\* open, the visitor has been invoked with (S, b[S..N]) as its last
\* invocation by the time the call has returned.
C2_TrailingRunFlushed ==
    (CallCompleted /\ NeverFailed /\ run_state.tag = "Different") =>
        /\ Len(calls) >= 1
        /\ calls[Len(calls)] = Report(run_state.start, N)

\* C3: with a visitor that never fails, writing each reported slice over a
\* copy of a at its reported start index, in the order reported, gives b.
C3_OverlayReconstructsB ==
    (CallCompleted /\ NeverFailed) => Overlay(a, calls) = b

\* C4: in every state, the runs reported so far have strictly increasing start
\* indices, are non-empty, do not overlap, are separated from the next
\* reported run by at least one index where a and b are equal, contain only
\* differing indices, and have an equal pair just before their start and just
\* at their end whenever those indices are inside [0, N).
C4_ReportedRunsMaximal ==
    \A k \in 1..Len(calls) :
        /\ Len(calls[k].diff) >= 1
        /\ 0 <= calls[k].idx /\ EndOf(k) <= N
        /\ \A i \in calls[k].idx..(EndOf(k) - 1) : Differs(i)
        /\ calls[k].idx > 0 => ~Differs(calls[k].idx - 1)
        /\ EndOf(k) < N => ~Differs(EndOf(k))
        /\ k < Len(calls) =>
              /\ calls[k].idx < calls[k + 1].idx
              /\ EndOf(k) <= calls[k + 1].idx
              /\ \E i \in EndOf(k)..(calls[k + 1].idx - 1) : ~Differs(i)

\* two runs have been reported and the scan is still going on
C4_Witness ==
    /\ Len(calls) >= 2
    /\ pc = "loop"

\* C5: if the visitor returned a failure on its k-th invocation, the call has
\* returned exactly that failure value and the k-th invocation is the last.
C5_FailureStopsAndPropagates ==
    \A k \in 1..Len(vres) :
        vres[k].tag = "Err" =>
            /\ k = Len(vres)
            /\ Len(calls) = k
            /\ pc # "loop"
            /\ ret = vres[k]

\* the visitor failed on its first invocation with the value 2 although
\* differing runs remain behind the first one, and the call is over
C5_Witness ==
    /\ mode = "try_diff_in_place"
    /\ CallCompleted
    /\ Len(vres) = 1
    /\ vres[1] = Err(2)
    /\ ret = Err(2)
    /\ Cardinality(MaxRuns) >= 2

\* C6: when a and b are equal at every index the visitor is never invoked
\* and try_diff_in_place, once it has returned, has returned success.
C6_EqualArraysNoInvocation ==
    AllEqual =>
        /\ calls = <<>>
        /\ pc \in {"unwrap", "done"} => ret = Ok

\* a call on two equal arrays of length >= 1 has returned
C6_Witness ==
    /\ AllEqual
    /\ N >= 1
    /\ CallCompleted
    /\ ret = Ok
    /\ calls = <<>>

\* C7: for N >= 1 and a, b different at every index, a completed call has
\* invoked the visitor exactly once, with start 0 and the whole of b.
C7_FullyDifferentOneInvocation ==
    (CallCompleted /\ N >= 1 /\ AllDiffer) => calls = <<Report(0, N)>>

\* C8: try_diff_in_place returns a failure if and only if some visitor
\* invocation returned a failure.
C8_FailureOnlyFromVisitor ==
    pc \in {"unwrap", "done"} =>
        /\ ret.tag \in {"Ok", "Err"}
        /\ (ret.tag = "Err") <=> ~NeverFailed
        /\ NeverFailed => ret = Ok

\* a call with two successful invocations has returned success
C8_Witness ==
    /\ mode = "try_diff_in_place"
    /\ CallCompleted
    /\ Len(vres) = 2
    /\ NeverFailed
    /\ ret = Ok

\* C9: in diff_in_place every invocation of the wrapped visitor returns
\* success, the inner call returns success and the unwrap never panics.
C9_UnwrapNeverFires ==
    mode = "diff_in_place" =>
        /\ NeverFailed
        /\ pc \in {"unwrap", "done"} => ret = Ok
        /\ ~panicked

\* diff_in_place has completed after the visitor was invoked
C9_Witness ==
    /\ mode = "diff_in_place"
    /\ CallCompleted
    /\ Len(calls) >= 1
    /\ ~panicked

\* C10: no step changes a or b, including the step that returns early on a
\* visitor failure.
C10_InputsNeverChange == [][a' = a /\ b' = b]_vars

\* the call returned early on a visitor failure and the arrays differ
C10_Witness ==
    /\ CallCompleted
    /\ ret.tag = "Err"
    /\ Len(calls) >= 1
    /\ ~AllEqual

\* C11: loop invariant. Before index current is compared, run_state is Same
\* exactly when current = 0 or the previous pair was equal, and Different(S)
\* exactly when current > 0 and the previous pair differed; then S < current,
\* every index in [S, current) differs and S = 0 or the pair at S-1 is equal.
C11_LoopInvariant ==
    pc = "loop" =>
        /\ (run_state.tag = "Same") <=> (current = 0 \/ ~Differs(current - 1))
        /\ (run_state.tag = "Different") <=> (current > 0 /\ Differs(current - 1))
        /\ run_state.tag = "Different" =>
              /\ 0 <= run_state.start /\ run_state.start < current
              /\ \A j \in run_state.start..(current - 1) : Differs(j)
              /\ run_state.start = 0 \/ ~Differs(run_state.start - 1)

\* the scan is inside a run that started after index 0 and is two long
C11_Witness ==
    /\ pc = "loop"
    /\ run_state.tag = "Different"
    /\ run_state.start >= 1
    /\ current = run_state.start + 2

\* C12: a step that invokes the visitor is either the comparison of an index
\* i >= 1 with a[i] = b[i] and a[i-1] # b[i-1] made while a run is open, or
\* the flush after the last index; never the start or the middle of a run.
C12_InvokedOnlyWhenRunEnds ==
    [][Len(calls') > Len(calls) =>
          /\ pc = "loop"
          /\ run_state.tag = "Different"
          /\ \/ /\ 1 <= current /\ current < N
                /\ ~Differs(current)
                /\ Differs(current - 1)
             \/ current = N]_vars

\* the last invocation so far was made at the index just compared
C12_Witness ==
    /\ pc = "loop"
    /\ Len(calls) >= 1
    /\ run_state.tag = "Same"
    /\ current = EndOf(Len(calls)) + 1
    /\ current < N

\* C13: at every visitor invocation 0 <= run_start < end <= N and the slice
\* reported has length end - run_start; no step panics.
C13_SliceAlwaysInRange ==
    [][/\ ~panicked'
       /\ Len(calls') > Len(calls) =>
             /\ 0 <= run_state.start
             /\ run_state.start < current
             /\ current <= N
             /\ Len(calls'[Len(calls')].diff) = current - run_state.start
             /\ Len(calls'[Len(calls')].diff) >= 1]_vars

\* an invocation reported a slice of two elements that starts after index 0
C13_Witness ==
    /\ Len(calls) >= 1
    /\ calls[1].idx >= 1
    /\ Len(calls[1].diff) = 2
    /\ ~panicked

\* the indices i in [1, N) where a run ends: a[i-1] # b[i-1] and a[i] = b[i]
RunEnds == {i \in 1..(N - 1) : Differs(i - 1) /\ ~Differs(i)}

ComparedInOrder ==
    /\ Len(compared) <= N
    /\ \A k \in 1..Len(compared) : compared[k] = k - 1

\* C15: a call terminates; until then it has compared each index at most
\* once, in ascending order, so it returns after at most N comparisons, and
\* after exactly N when no visitor failure aborted the scan.
C15_Terminates ==
    /\ [](ComparedInOrder /\ (CallCompleted /\ ret = Ok => Len(compared) = N))
    /\ <>CallCompleted

\* a visitor failure ended a call after at least two but fewer than N
\* comparisons
C15_Witness ==
    /\ CallCompleted
    /\ ret.tag = "Err"
    /\ Len(compared) >= 2
    /\ Len(compared) < N

\* the shorter of two lengths
Min(x, y) == IF x <= y THEN x ELSE y

\* C16: calls are independent. Every call starts in the Same state, whatever
\* state the call before it ended in; its invocations are those of the call
\* before it on the same arrays as far as both went, also when that call
\* was aborted by a visitor failure; and with the same visitor results it
\* makes the same invocations and returns the same value.
C16_CallsIndependent ==
    /\ ~panicked
    /\ (pc = "loop" /\ current = 0) => run_state = Same
    /\ prev.n >= 1 =>
          /\ \A k \in 1..Min(Len(calls), Len(prev.calls)) :
                calls[k] = prev.calls[k]
          /\ (CallCompleted /\ vres = prev.vres) =>
                /\ calls = prev.calls
                /\ ret = prev.ret

\* after a call that a visitor failure aborted at its first invocation, a
\* second call on the same arrays has completed with two invocations
C16_Witness ==
    /\ prev.n = 1
    /\ prev.ret.tag = "Err"
    /\ Len(prev.calls) = 1
    /\ CallCompleted
    /\ NeverFailed
    /\ Len(calls) = 2
    /\ calls[1] = prev.calls[1]

====
